---- MODULE Spec2Model ----
(***************************************************************************)
(* Model of src/src/browser-realm.ts: createSecureEnvironment builds a     *)
(* secure realm (an iframe's window), registers raw<->secure pairs in a    *)
(* membrane (SecureEnvironment) and returns an evaluator that re-throws    *)
(* sandbox failures as raw values.                                         *)
(*                                                                         *)
(* Values of both realms are records [realm, owner, kind, name]: owner is  *)
(* the number of the iframe window a secure value belongs to (0 for raw    *)
(* values), name is the global name or the spine node it stands for.       *)
(***************************************************************************)
EXTENDS Naturals, Sequences, FiniteSets

\* Number of createSecureEnvironment calls explored.
MaxCalls == 2
\* Longest ReflectiveDOMObjectNames list explored.
MaxList == 2

Calls == 1..MaxCalls

--------------------------------------------------------------------------
\* Names and values

\* The names deleted from rawGlobalThisDescriptors.
Denylist == {"location", "EventTarget", "document", "window"}

\* Own properties the raw window may or may not have besides the denylisted ones.
RawOptional == {"TypeError", "String", "Foo"}

\* Globals a freshly created iframe window defines.
SecureGlobalNames == Denylist \cup {"TypeError", "String"}

\* Names the reflective list is drawn from.
ReflectiveCandidates == {"EventTarget", "TypeError", "String", "Foo"}

Names == Denylist \cup RawOptional

\* Globals that are functions usable with construct.
ConstructorNames == {"EventTarget", "TypeError", "String", "Foo", "Error"}

\* Constructors whose instances are errors.
ErrorConstructorNames == {"TypeError", "Error"}

\* Constructors that run page code and so may throw when constructed.
UserConstructorNames == {"Foo"}

Undef == [realm |-> "none", owner |-> 0, kind |-> "undefined", name |-> ""]

RawGlobal(n) == [realm |-> "raw", owner |-> 0, kind |-> "global", name |-> n]

SecGlobal(w, n) == [realm |-> "secure", owner |-> w, kind |-> "global", name |-> n]

RawNode(n) == [realm |-> "raw", owner |-> 0, kind |-> "node", name |-> n]

SecNode(w, n) == [realm |-> "secure", owner |-> w, kind |-> "node", name |-> n]

\* const rawWindow = globalThis.window; const rawDocument = globalThis.document
rawWindow == RawGlobal("window")

rawDocument == RawGlobal("document")

rawWindowProto == RawNode("Window.prototype")

rawWindowPropertiesProto == RawNode("WindowProperties")

rawEventTargetProto == RawNode("EventTarget.prototype")

rawDocumentProto == RawNode("Document.prototype")

\* No message (the message read from a value that has none).
NoMessage == <<>>

Messages == {<<"bad">>, <<"oops">>}

\* Sequences over S of length at most n without repetition.
ListsOver(S, n) ==
    {s \in UNION {[1..k -> S] : k \in 0..n} :
        \A a, b \in 1..Len(s) : a # b => s[a] # s[b]}

--------------------------------------------------------------------------
VARIABLES
    rawNames,                 \* own property names of the raw window
    ReflectiveDOMObjectNames, \* the list imported from ./shared
    calls,                    \* createSecureEnvironment calls started so far
    running,                  \* the call being executed, 0 when none
    pc,                       \* position of each call
    secureWindow,             \* each call's iframe window number, 0 before
    rawGlobalThisDescriptors, \* each call's descriptor names of the raw window
    i,                        \* each call's loop index
    env,                      \* each call's membrane number, 0 before
    membranes,                \* the SecureEnvironment objects
    iframes,                  \* iframes created so far
    environments,             \* SecureEnvironment objects created so far
    outcome                   \* completion of the evaluator call in progress

vars == <<rawNames, ReflectiveDOMObjectNames, calls, running, pc, secureWindow,
          rawGlobalThisDescriptors, i, env, membranes, iframes, environments, outcome>>

NoMembrane == [rawGlobalThis |-> Undef, secureGlobalThis |-> Undef, log |-> <<>>]

\* A sandbox value no evaluator call has thrown.
NoThrown == [kind |-> "none", message |-> NoMessage, ctor |-> Undef]

\* What an evaluator call that threw nothing leaves to its caller.
NoResult == [realm |-> "none", by |-> "none", ctor |-> Undef, args |-> <<>>,
             orig |-> FALSE]

NoOutcome == [kind |-> "none", call |-> 0, membrane |-> 0, thrown |-> NoThrown,
              failed |-> FALSE, result |-> NoResult]

Init ==
    /\ rawNames \in {Denylist \cup S : S \in SUBSET RawOptional}
    /\ ReflectiveDOMObjectNames \in ListsOver(ReflectiveCandidates, MaxList)
    /\ calls = 0
    /\ running = 0
    /\ pc = [c \in Calls |-> "idle"]
    /\ secureWindow = [c \in Calls |-> 0]
    /\ rawGlobalThisDescriptors = [c \in Calls |-> {}]
    /\ i = [c \in Calls |-> 0]
    /\ env = [c \in Calls |-> 0]
    /\ membranes = [m \in Calls |-> NoMembrane]
    /\ iframes = 0
    /\ environments = 0
    /\ outcome = NoOutcome

--------------------------------------------------------------------------
\* Reflective primitives and the membrane engine (imported, not in src/)

\* getOwnPropertyDescriptors(v): the owner and the names of its descriptors.
getOwnPropertyDescriptors(v, names) ==
    [owner |-> v,
     keys |-> IF v = rawWindow THEN names
              ELSE IF v.kind = "global" THEN {"prototype"}
              ELSE {"constructor"}]

\* The literal {} of line 65.
EmptyDescriptors == [owner |-> Undef, keys |-> {}]

\* The membrane's proxy, in secure window w, of raw value v.
Wrap(w, v) ==
    [realm |-> "secure", owner |-> w,
     kind |-> IF v.kind = "global" THEN "proxy" ELSE "nodeproxy",
     name |-> v.name]

\* The raw value a membrane proxy stands for.
Unwrap(p) ==
    [realm |-> "raw", owner |-> 0,
     kind |-> IF p.kind = "proxy" THEN "global" ELSE "node",
     name |-> p.name]

IsProxy(v) == v.kind \in {"proxy", "nodeproxy"}

\* Positions of the registrations of log whose field f is v.
Registered(log, f, v) ==
    {k \in 1..Len(log) : log[k].op = "remap" /\ log[k][f] = v}

Last(S) == CHOOSE k \in S : \A j \in S : j <= k

\* env.remap(secureNode, rawNode, descriptors): registers the pair.
remap(mem, secureNode, rawNode, descriptors) ==
    [mem EXCEPT !.log = Append(@, [op |-> "remap", sec |-> secureNode,
                                   raw |-> rawNode, descs |-> descriptors,
                                   proto |-> Undef])]

\* env.getRawRef(v): the raw side of the pair registered with v on the secure
\* side, the target of one of this membrane's proxies, undefined otherwise.
getRawRef(mem, v) ==
    IF Registered(mem.log, "sec", v) # {}
    THEN mem.log[Last(Registered(mem.log, "sec", v))].raw
    ELSE IF IsProxy(v) /\ v.owner = mem.secureGlobalThis.owner
    THEN Unwrap(v)
    ELSE Undef

\* env.getSecureValue(v): the secure side registered for raw v, else its proxy.
getSecureValue(mem, v) ==
    IF Registered(mem.log, "raw", v) # {}
    THEN mem.log[Last(Registered(mem.log, "raw", v))].sec
    ELSE Wrap(mem.secureGlobalThis.owner, v)

--------------------------------------------------------------------------
\* createSecureEnvironment

\* rawWindow[key]
RawWindowGet(key) == IF key \in rawNames THEN RawGlobal(key) ELSE Undef

\* secureWindow[key] of a window no registration has touched yet.
SecureWindowNative(w, key) ==
    IF key \in SecureGlobalNames THEN SecGlobal(w, key) ELSE Undef

\* Successor with lines 80 and 81 exchanged: the window registered before its prototype.
SuccessorWindowEarly(p) ==
    CASE p = "provision" -> "capture"
      [] p = "capture" -> "newEnvironment"
      [] p = "newEnvironment" -> "remapDocument"
      [] p = "remapDocument" -> "setDocumentProto"
      [] p = "setDocumentProto" -> "reflective"
      [] p = "reflective" -> "remapEventTargetProto"
      [] p = "remapEventTargetProto" -> "remapWindowPropertiesProto"
      [] p = "remapWindowPropertiesProto" -> "remapWindow"
      [] p = "remapWindow" -> "remapWindowProto"
      [] p = "remapWindowProto" -> "return"
      [] OTHER -> "returned"

\* The statement executed after the one at position p.
Successor(p) ==
    CASE p = "provision" -> "capture"
      [] p = "capture" -> "newEnvironment"
      [] p = "newEnvironment" -> "remapDocument"
      [] p = "remapDocument" -> "setDocumentProto"
      [] p = "setDocumentProto" -> "reflective"
      [] p = "reflective" -> "remapEventTargetProto"
      [] p = "remapEventTargetProto" -> "remapWindowPropertiesProto"
      [] p = "remapWindowPropertiesProto" -> "remapWindowProto"
      [] p = "remapWindowProto" -> "remapWindow"
      [] p = "remapWindow" -> "return"
      [] OTHER -> "returned"

\* Statements that call into the host or the membrane and may throw.
Fallible == {"provision", "newEnvironment", "remapDocument", "setDocumentProto",
             "reflective", "remapEventTargetProto", "remapWindowPropertiesProto",
             "remapWindowProto", "remapWindow"}

\* DeleteProblematic without line 56: window stays in the descriptor set.
DeleteProblematicKeepsWindow(d) == d \ {"location", "EventTarget", "document"}

\* delete rawGlobalThisDescriptors.location / EventTarget / document / window
DeleteProblematic(d) == d \ {"location", "EventTarget", "document", "window"}

\* new SecureEnvironment(...) yields an object no earlier call created.
FreshEnvironment == environments + 1

\* The call of createSecureEnvironment begins.
CreateSecureEnvironment(c) ==
    /\ running = 0
    /\ outcome = NoOutcome
    /\ c = calls + 1
    /\ pc[c] = "idle"
    /\ calls' = c
    /\ running' = c
    /\ pc' = [pc EXCEPT ![c] = "provision"]
    /\ UNCHANGED <<rawNames, ReflectiveDOMObjectNames, secureWindow,
                   rawGlobalThisDescriptors, i, env, membranes, iframes,
                   environments, outcome>>

\* Lines 22-44: a new iframe's window becomes secureWindow.
Provision(c) ==
    /\ running = c
    /\ pc[c] = "provision"
    /\ iframes' = iframes + 1
    /\ secureWindow' = [secureWindow EXCEPT ![c] = iframes + 1]
    /\ pc' = [pc EXCEPT ![c] = Successor(pc[c])]
    /\ UNCHANGED <<rawNames, ReflectiveDOMObjectNames, calls, running,
                   rawGlobalThisDescriptors, i, env, membranes, environments,
                   outcome>>

\* Lines 46-56: the raw window's descriptors are captured and filtered.
CaptureDescriptors(c) ==
    /\ running = c
    /\ pc[c] = "capture"
    /\ rawGlobalThisDescriptors' =
           [rawGlobalThisDescriptors EXCEPT ![c] = DeleteProblematic(rawNames)]
    /\ pc' = [pc EXCEPT ![c] = Successor(pc[c])]
    /\ UNCHANGED <<rawNames, ReflectiveDOMObjectNames, calls, running,
                   secureWindow, i, env, membranes, iframes, environments,
                   outcome>>

\* Lines 58-62: const env = new SecureEnvironment({...}).
NewSecureEnvironment(c) ==
    /\ running = c
    /\ pc[c] = "newEnvironment"
    /\ FreshEnvironment \in Calls
    /\ environments' = environments + 1
    /\ env' = [env EXCEPT ![c] = FreshEnvironment]
    /\ membranes' = [membranes EXCEPT ![FreshEnvironment] =
           [rawGlobalThis |-> rawWindow,
            secureGlobalThis |-> SecGlobal(secureWindow[c], "window"),
            log |-> <<>>]]
    /\ i' = [i EXCEPT ![c] = 0]
    /\ pc' = [pc EXCEPT ![c] = Successor(pc[c])]
    /\ UNCHANGED <<rawNames, ReflectiveDOMObjectNames, calls, running,
                   secureWindow, rawGlobalThisDescriptors, iframes, outcome>>

\* A straight-line statement env.remap(sec, raw, descs) at position p.
RemapAt(c, p, sec, raw, descs) ==
    /\ running = c
    /\ pc[c] = p
    /\ membranes' = [membranes EXCEPT ![env[c]] = remap(@, sec, raw, descs)]
    /\ pc' = [pc EXCEPT ![c] = Successor(pc[c])]
    /\ UNCHANGED <<rawNames, ReflectiveDOMObjectNames, calls, running,
                   secureWindow, rawGlobalThisDescriptors, i, env, iframes,
                   environments, outcome>>

\* Line 65.
RemapDocument(c) ==
    RemapAt(c, "remapDocument", SecGlobal(secureWindow[c], "document"),
            rawDocument, EmptyDescriptors)

\* Line 66: ReflectSetPrototypeOf(secureDocument, env.getSecureValue(rawDocumentProto)).
SetDocumentProto(c) ==
    /\ running = c
    /\ pc[c] = "setDocumentProto"
    /\ membranes' = [membranes EXCEPT ![env[c]].log =
           Append(@, [op |-> "setPrototypeOf",
                      sec |-> SecGlobal(secureWindow[c], "document"),
                      raw |-> Undef, descs |-> EmptyDescriptors,
                      proto |-> getSecureValue(membranes[env[c]], rawDocumentProto)])]
    /\ pc' = [pc EXCEPT ![c] = Successor(pc[c])]
    /\ UNCHANGED <<rawNames, ReflectiveDOMObjectNames, calls, running,
                   secureWindow, rawGlobalThisDescriptors, i, env, iframes,
                   environments, outcome>>

\* Lines 69-75, one iteration of the loop over ReflectiveDOMObjectNames.
ReflectiveIteration(c) ==
    /\ running = c
    /\ pc[c] = "reflective"
    /\ i[c] < Len(ReflectiveDOMObjectNames)
    /\ LET key == ReflectiveDOMObjectNames[i[c] + 1]
           rawValue == RawWindowGet(key)
           secureValue == SecureWindowNative(secureWindow[c], key)
       IN IF rawValue # Undef /\ secureValue # Undef
          THEN /\ rawGlobalThisDescriptors' =
                      [rawGlobalThisDescriptors EXCEPT ![c] = @ \ {key}]
               /\ membranes' = [membranes EXCEPT ![env[c]] =
                      remap(@, rawValue, secureValue,
                            getOwnPropertyDescriptors(rawValue, rawNames))]
          ELSE UNCHANGED <<rawGlobalThisDescriptors, membranes>>
    /\ i' = [i EXCEPT ![c] = @ + 1]
    /\ UNCHANGED <<rawNames, ReflectiveDOMObjectNames, calls, running, pc,
                   secureWindow, env, iframes, environments, outcome>>

\* Line 69: the loop ends when i reaches the length of the list.
ReflectiveExit(c) ==
    /\ running = c
    /\ pc[c] = "reflective"
    /\ i[c] >= Len(ReflectiveDOMObjectNames)
    /\ pc' = [pc EXCEPT ![c] = Successor(pc[c])]
    /\ UNCHANGED <<rawNames, ReflectiveDOMObjectNames, calls, running,
                   secureWindow, rawGlobalThisDescriptors, i, env, membranes,
                   iframes, environments, outcome>>

\* Line 78.
RemapEventTargetProto(c) ==
    RemapAt(c, "remapEventTargetProto",
            SecNode(secureWindow[c], "EventTarget.prototype"), rawEventTargetProto,
            getOwnPropertyDescriptors(rawEventTargetProto, rawNames))

\* Line 79.
RemapWindowPropertiesProto(c) ==
    RemapAt(c, "remapWindowPropertiesProto",
            SecNode(secureWindow[c], "WindowProperties"), rawWindowPropertiesProto,
            getOwnPropertyDescriptors(rawWindowPropertiesProto, rawNames))

\* Line 80.
RemapWindowProto(c) ==
    RemapAt(c, "remapWindowProto",
            SecNode(secureWindow[c], "Window.prototype"), rawWindowProto,
            getOwnPropertyDescriptors(rawWindowProto, rawNames))

\* Line 81: the descriptors are the filtered set, not a fresh capture.
RemapWindow(c) ==
    RemapAt(c, "remapWindow", SecGlobal(secureWindow[c], "window"), rawWindow,
            [owner |-> rawWindow, keys |-> rawGlobalThisDescriptors[c]])

\* Line 84: the evaluator is returned to the caller.
ReturnEvaluator(c) ==
    /\ running = c
    /\ pc[c] = "return"
    /\ pc' = [pc EXCEPT ![c] = "returned"]
    /\ running' = 0
    /\ UNCHANGED <<rawNames, ReflectiveDOMObjectNames, calls, secureWindow,
                   rawGlobalThisDescriptors, i, env, membranes, iframes,
                   environments, outcome>>

\* Throws with the failure swallowed: the statement is skipped and the call goes on.
Swallows(c) ==
    /\ running = c
    /\ pc[c] \in Fallible
    /\ pc' = [pc EXCEPT ![c] = Successor(pc[c])]
    /\ UNCHANGED <<rawNames, ReflectiveDOMObjectNames, calls, running,
                   secureWindow, rawGlobalThisDescriptors, i, env, membranes,
                   iframes, environments, outcome>>

\* A host or membrane call throws: nothing catches it, the call ends without
\* returning, and its locals and its membrane become unreachable.
Throws(c) ==
    /\ running = c
    /\ pc[c] \in Fallible
    /\ pc' = [pc EXCEPT ![c] = "threw"]
    /\ running' = 0
    /\ secureWindow' = [secureWindow EXCEPT ![c] = 0]
    /\ rawGlobalThisDescriptors' = [rawGlobalThisDescriptors EXCEPT ![c] = {}]
    /\ i' = [i EXCEPT ![c] = 0]
    /\ env' = [env EXCEPT ![c] = 0]
    /\ membranes' = IF env[c] = 0 THEN membranes
                    ELSE [membranes EXCEPT ![env[c]] = NoMembrane]
    /\ UNCHANGED <<rawNames, ReflectiveDOMObjectNames, calls, iframes,
                   environments, outcome>>

--------------------------------------------------------------------------
\* The returned evaluator

\* What sandboxed code of call c reads as window[n] once the window is
\* registered: the membrane's form of the raw value for a registered
\* descriptor, the iframe's own global otherwise.
SecureWindowGet(c, n) ==
    IF n \in rawGlobalThisDescriptors[c]
    THEN getSecureValue(membranes[env[c]], RawGlobal(n))
    ELSE SecureWindowNative(secureWindow[c], n)

\* Values sandboxed source of call c can throw: null, undefined, a primitive
\* string, an object whose message accessor throws the object itself, and
\* objects with a message and a constructor property.
ThrownValues(c) ==
    {[kind |-> k, message |-> NoMessage, ctor |-> Undef] :
        k \in {"null", "undefined", "primitive", "accessor"}}
    \cup {[kind |-> "object", message |-> m, ctor |-> k] :
            m \in Messages,
            k \in {SecureWindowGet(c, n) : n \in Names} \cup {Undef}}

\* e.message as read by the evaluator's raw-realm code.
ReadMessage(e) == e.message

\* e.constructor as read by the evaluator's raw-realm code: a primitive is
\* boxed in the realm of the running code, the raw one.
ReadConstructor(e) ==
    IF e.kind = "primitive" THEN RawGlobal("String") ELSE e.ctor

IsConstructor(v) == v.kind \in {"global", "proxy"} /\ v.name \in ConstructorNames

\* construct(target, args): a new instance made in target's realm; throws for a
\* target that is no constructor or whose body throws (fails).
construct(target, args, fails) ==
    [ok |-> IsConstructor(target) /\ ~(fails /\ target.name \in UserConstructorNames),
     value |-> [realm |-> target.realm, by |-> "construct", ctor |-> target,
                args |-> args, orig |-> FALSE]]

\* ErrorCreate(message): a generic raw error carrying message.
ErrorCreate(message) ==
    [realm |-> "raw", by |-> "ErrorCreate", ctor |-> RawGlobal("Error"),
     args |-> <<message>>, orig |-> FALSE]

\* The TypeError the raw realm raises when line 92 destructures null or undefined.
DestructureTypeError ==
    [realm |-> "raw", by |-> "engine", ctor |-> RawGlobal("TypeError"),
     args |-> <<NoMessage>>, orig |-> FALSE]

\* A sandbox value leaving the evaluator as it is.
Propagated(e) ==
    [realm |-> "secure", by |-> "sandbox", ctor |-> e.ctor, args |-> <<>>,
     orig |-> TRUE]

\* CatchIgnored that loses the message.
CatchIgnoredDropsMessage(message) == ErrorCreate(NoMessage)

\* Lines 98-101: the inner catch.
CatchIgnored(message) == ErrorCreate(message)

\* Whether line 92 completes for e.
Captures(e) == e.kind \in {"primitive", "object"}

\* Lines 87-102: the value the evaluator throws for sandbox throw e.
EvaluatorCatch(mem, e, fails) ==
    IF e.kind \in {"null", "undefined"} THEN DestructureTypeError
    ELSE IF e.kind = "accessor" THEN Propagated(e)
    ELSE LET message == ReadMessage(e)
             constructor == ReadConstructor(e)
             rawErrorConstructor == getRawRef(mem, constructor)
             built == construct(rawErrorConstructor, <<message>>, fails)
         IN IF built.ok THEN built.value ELSE CatchIgnored(message)

\* ClosureEnv if env were shared by all calls: the environment created last.
LatestEnvironment(c) == environments

\* The env the closure returned by call c refers to.
ClosureEnv(c) == env[c]

\* The evaluator of call c runs source that throws.
Evaluate(c) ==
    /\ running = 0
    /\ outcome = NoOutcome
    /\ pc[c] = "returned"
    /\ \E e \in ThrownValues(c), fails \in BOOLEAN :
          outcome' = [kind |-> "threw", call |-> c,
                      membrane |-> IF Captures(e) THEN ClosureEnv(c) ELSE 0,
                      thrown |-> e,
                      failed |-> fails /\ Captures(e)
                                 /\ getRawRef(membranes[ClosureEnv(c)],
                                        ReadConstructor(e)).name \in UserConstructorNames,
                      result |-> EvaluatorCatch(membranes[ClosureEnv(c)], e, fails)]
    /\ UNCHANGED <<rawNames, ReflectiveDOMObjectNames, calls, running, pc,
                   secureWindow, rawGlobalThisDescriptors, i, env, membranes,
                   iframes, environments>>

\* The evaluator of call c runs source that completes: nothing is returned.
EvaluateCompletes(c) ==
    /\ running = 0
    /\ outcome = NoOutcome
    /\ pc[c] = "returned"
    /\ outcome' = [NoOutcome EXCEPT !.kind = "completed", !.call = c]
    /\ UNCHANGED <<rawNames, ReflectiveDOMObjectNames, calls, running, pc,
                   secureWindow, rawGlobalThisDescriptors, i, env, membranes,
                   iframes, environments>>

\* The evaluator call is over: its caller has the completion and goes on.
CallerResumes ==
    /\ outcome # NoOutcome
    /\ outcome' = NoOutcome
    /\ UNCHANGED <<rawNames, ReflectiveDOMObjectNames, calls, running, pc,
                   secureWindow, rawGlobalThisDescriptors, i, env, membranes,
                   iframes, environments>>

--------------------------------------------------------------------------
Next ==
    \/ CallerResumes
    \/ \E c \in Calls :
        \/ CreateSecureEnvironment(c)
        \/ Provision(c)
        \/ CaptureDescriptors(c)
        \/ NewSecureEnvironment(c)
        \/ RemapDocument(c)
        \/ SetDocumentProto(c)
        \/ ReflectiveIteration(c)
        \/ ReflectiveExit(c)
        \/ RemapEventTargetProto(c)
        \/ RemapWindowPropertiesProto(c)
        \/ RemapWindowProto(c)
        \/ RemapWindow(c)
        \/ ReturnEvaluator(c)
        \/ Throws(c)
        \/ Evaluate(c)
        \/ EvaluateCompletes(c)

Spec == Init /\ [][Next]_vars

--------------------------------------------------------------------------
\* Properties

Thrown == outcome.thrown

Result == outcome.result

\* The membrane of the call whose evaluator is running.
OwnMembrane == membranes[env[outcome.call]]

\* The registrations of a membrane.
Remaps(mem) == {k \in 1..Len(mem.log) : mem.log[k].op = "remap"}

\* Names of the reflective list that are defined on both windows.
OnBothRealms ==
    {n \in {ReflectiveDOMObjectNames[k] : k \in 1..Len(ReflectiveDOMObjectNames)} :
        RawWindowGet(n) # Undef /\ n \in SecureGlobalNames}

IndexOf(n) == CHOOSE k \in 1..Len(ReflectiveDOMObjectNames) : ReflectiveDOMObjectNames[k] = n

\* C1: whatever sandboxed source throws, the evaluator call ends by throwing a
\* value newly created on the raw side by construct or ErrorCreate, never the
\* thrown secure-realm value.
C1_ThrowsNewRawValue ==
    outcome.kind = "threw" =>
        /\ Result.realm = "raw"
        /\ Result.by \in {"construct", "ErrorCreate"}
        /\ ~Result.orig

\* C2: when getRawRef resolves the thrown value's constructor, the evaluator
\* throws a new raw value built by that raw constructor from exactly the
\* captured message; a secure TypeError('bad'), TypeError being a reflective
\* name of both windows, yields an instance of the raw TypeError.
C2_MappedConstructorRebuilt ==
    (outcome.kind = "threw" /\ Captures(Thrown)) =>
        LET r == getRawRef(OwnMembrane, ReadConstructor(Thrown))
        IN /\ (IsConstructor(r) /\ ~outcome.failed) =>
                  /\ Result.by = "construct"
                  /\ Result.ctor = r
                  /\ r.realm = "raw"
                  /\ Result.realm = "raw"
                  /\ Result.args = <<Thrown.message>>
           /\ \A n \in OnBothRealms \cap ErrorConstructorNames :
                  (Thrown.kind = "object"
                   /\ Thrown.ctor = SecGlobal(secureWindow[outcome.call], n)) =>
                      /\ Result.ctor = RawGlobal(n)
                      /\ Result.args = <<Thrown.message>>

\* C3: when the captured constructor has no constructible raw counterpart, or
\* constructing with it fails, the evaluator throws the generic raw error of
\* ErrorCreate carrying the captured message.
C3_FallbackCarriesMessage ==
    (outcome.kind = "threw" /\ Captures(Thrown)) =>
        LET r == getRawRef(OwnMembrane, ReadConstructor(Thrown))
        IN (~IsConstructor(r) \/ outcome.failed) =>
              /\ Result.by = "ErrorCreate"
              /\ Result.realm = "raw"
              /\ Result.ctor = RawGlobal("Error")
              /\ Result.args = <<Thrown.message>>

\* An object with an unmapped constructor was thrown and came back as the
\* generic error with its message.
C3_Witness ==
    /\ outcome.kind = "threw"
    /\ Thrown.kind = "object"
    /\ Thrown.message = <<"bad">>
    /\ Thrown.ctor = SecGlobal(secureWindow[outcome.call], "TypeError")
    /\ getRawRef(OwnMembrane, Thrown.ctor) = Undef
    /\ Result.by = "ErrorCreate"

\* C4: every value a caller catches from the evaluator is a raw-realm error
\* instance, also when the sandbox threw a non-error value (an object or a
\* primitive whose constructor the membrane resolves).
C4_OnlyRawErrorInstances ==
    (outcome.kind = "threw" /\ Captures(Thrown)) =>
        /\ Result.realm = "raw"
        /\ Result.ctor.name \in ErrorConstructorNames
        /\ ~Result.orig

\* C5: the descriptor set registered for the global object, and the set held
\* for it from the filtering on, contains no denylisted name, whatever the raw
\* window's properties and the reflective list are.
C5_GlobalRegistrationFiltered ==
    /\ \A c \in Calls :
          pc[c] \notin {"idle", "provision", "capture", "threw"} =>
              rawGlobalThisDescriptors[c] \cap Denylist = {}
    /\ \A m \in Calls : \A k \in Remaps(membranes[m]) :
          LET r == membranes[m].log[k]
          IN (r.raw = rawWindow \/ r.sec = membranes[m].secureGlobalThis
              \/ r.descs.owner = rawWindow) =>
                 r.descs.keys \cap Denylist = {}

\* The window was registered in a run whose reflective loop registered the
\* denylisted EventTarget by name.
C5_Witness ==
    \E c \in Calls :
        /\ pc[c] = "returned"
        /\ "Foo" \in rawGlobalThisDescriptors[c]
        /\ \E k \in Remaps(membranes[env[c]]) :
              membranes[env[c]].log[k].descs.owner = RawGlobal("EventTarget")
        /\ \E k \in Remaps(membranes[env[c]]) :
              /\ membranes[env[c]].log[k].raw = rawWindow
              /\ "Foo" \in membranes[env[c]].log[k].descs.keys

\* C6: after construction, for every reflective name defined on both windows,
\* getRawRef(secureGlobal[name]) is rawGlobal[name] and the name is absent from
\* the global object's descriptor set.
C6_ReflectiveNamesResolve ==
    \A c \in Calls :
        pc[c] = "returned" =>
            \A n \in OnBothRealms :
                /\ getRawRef(membranes[env[c]], SecureWindowGet(c, n)) = RawGlobal(n)
                /\ n \notin rawGlobalThisDescriptors[c]

\* Place of a log entry in the order of lines 65-81.
Rank(r) ==
    CASE r.op = "setPrototypeOf" -> 2
      [] r.op = "remap" /\ r.raw = rawDocument -> 1
      [] r.op = "remap" /\ r.raw = rawEventTargetProto -> 4
      [] r.op = "remap" /\ r.raw = rawWindowPropertiesProto -> 5
      [] r.op = "remap" /\ r.raw = rawWindowProto -> 6
      [] r.op = "remap" /\ r.raw = rawWindow -> 7
      [] OTHER -> 3

\* C7: the document pair first with no descriptors, then the document's
\* prototype set to the wrapped raw document prototype, then the reflective
\* pairs in list order, then EventTarget.prototype, WindowProperties,
\* Window.prototype, and the window last; a returned call made all of them.
C7_RegistrationOrder ==
    \A m \in Calls :
        LET mem == membranes[m]
            log == mem.log
        IN /\ \A a \in 1..Len(log) :
                  a < Len(log) =>
                     /\ Rank(log[a]) <= Rank(log[a + 1])
                     /\ Rank(log[a]) = Rank(log[a + 1]) =>
                           /\ Rank(log[a]) = 3
                           /\ IndexOf(log[a].raw.name) < IndexOf(log[a + 1].raw.name)
           /\ Len(log) >= 1 =>
                  /\ Rank(log[1]) = 1
                  /\ log[1].sec = SecGlobal(mem.secureGlobalThis.owner, "document")
                  /\ log[1].descs.keys = {}
           /\ Len(log) >= 2 =>
                  /\ Rank(log[2]) = 2
                  /\ log[2].proto = Wrap(mem.secureGlobalThis.owner, rawDocumentProto)
           /\ \A k \in 1..Len(log) : Rank(log[k]) = 3 => log[k].raw.name \in OnBothRealms
           /\ (\E c \in Calls : env[c] = m /\ pc[c] \in {"return", "returned"}) =>
                  /\ {Rank(log[k]) : k \in 1..Len(log)} \ {3} = {1, 2, 4, 5, 6, 7}
                  /\ Rank(log[Len(log)]) = 7
                  /\ {log[k].raw.name : k \in {j \in 1..Len(log) : Rank(log[j]) = 3}}
                         = OnBothRealms

\* A call returned after registering two reflective pairs between the
\* document and the spine.
C7_Witness ==
    \E c \in Calls :
        /\ pc[c] = "returned"
        /\ Cardinality(OnBothRealms) = 2
        /\ Len(membranes[env[c]].log) = 8

\* C8: two environments have distinct secure windows and distinct membranes,
\* each membrane built on its own call's window, and a failure in one
\* evaluator is resolved against that call's membrane only.
C8_IndependentEnvironments ==
    /\ \A c1, c2 \in Calls :
          (c1 # c2 /\ pc[c1] = "returned" /\ pc[c2] = "returned") =>
              /\ secureWindow[c1] # secureWindow[c2]
              /\ env[c1] # env[c2]
    /\ \A c \in Calls :
          pc[c] = "returned" =>
              membranes[env[c]].secureGlobalThis = SecGlobal(secureWindow[c], "window")
    /\ (outcome.kind = "threw" /\ outcome.membrane # 0) =>
          /\ outcome.membrane = env[outcome.call]
          /\ membranes[outcome.membrane].secureGlobalThis.owner
                 = secureWindow[outcome.call]
          /\ \A c \in Calls \ {outcome.call} : outcome.membrane # env[c]

\* The first environment's evaluator resolved a failure after the second
\* environment had been built.
C8_Witness ==
    /\ MaxCalls >= 2
    /\ pc[1] = "returned"
    /\ pc[2] = "returned"
    /\ outcome.kind = "threw"
    /\ outcome.call = 1
    /\ outcome.membrane # 0
    /\ Result.by = "construct"

\* C9: an evaluator exists only for a call in which every registration,
\* the global object's included, completed; a call in which a step failed
\* returns none.
C9_EvaluatorOnlyAfterAllRegistrations ==
    /\ \A c \in Calls :
          pc[c] \in {"return", "returned"} =>
              /\ env[c] # 0
              /\ secureWindow[c] # 0
              /\ LET log == membranes[env[c]].log
                 IN /\ Len(log) = 6 + Cardinality(OnBothRealms)
                    /\ log[Len(log)].op = "remap"
                    /\ log[Len(log)].raw = rawWindow
                    /\ log[Len(log)].sec = SecGlobal(secureWindow[c], "window")
    /\ outcome.kind # "none" => pc[outcome.call] = "returned"

\* One call failed after creating its membrane and returned nothing; a later
\* call returned an evaluator.
C9_Witness ==
    /\ MaxCalls >= 2
    /\ pc[1] = "threw"
    /\ environments = 2
    /\ pc[2] = "returned"
    /\ outcome.kind = "threw"
    /\ outcome.call = 2

\* C10: every registration is (secure value, corresponding raw value,
\* descriptors of the raw value).
C10_RegistrationsAreSecureRawTriples ==
    \A m \in Calls : \A k \in Remaps(membranes[m]) :
        LET r == membranes[m].log[k]
        IN /\ r.sec.realm = "secure"
           /\ r.raw.realm = "raw"
           /\ r.sec.name = r.raw.name
           /\ r.descs = EmptyDescriptors \/ r.descs.owner = r.raw

====
